---- MODULE Spec2Model ----
(***************************************************************************)
(* The School Management System: the Mongoose models Grade, Attendance,    *)
(* Student and Course (save hooks, virtuals, model methods), the auth       *)
(* middleware, and the Express handlers of /api/grades, /api/attendance,    *)
(* /api/users, /api/students, /api/teachers and /api/courses.               *)
(***************************************************************************)
EXTENDS Integers, Sequences, FiniteSets, TLC

VARIABLES
    grades,     \* the Grade collection: a sequence of stored documents, _id = index
    gpending,   \* POST /api/grades requests that passed the existence check and await save
    gresp,      \* the response of the last grade request
    days,       \* the Attendance collection: a sequence of stored documents, _id = index
    apending,   \* POST /api/attendance requests that passed the existence check and await save
    aresp,      \* the response of the last attendance request
    phase,      \* progress of the last attendance requests through lock, update, unlock, update
    users,      \* the User collection: role, isActive and presence of every account
    uresp,      \* the response of the last request on /api/users
    students,   \* the Student collection: a sequence of stored documents
    teachers,   \* the Teacher collection: a sequence of stored documents
    courses,    \* the Course collection: a sequence of stored documents
    dresp,      \* the response of the last request on /api/students, /teachers, /courses
    inflight    \* requests on /:id that loaded their document and await their save

gradeVars == <<grades, gpending, gresp>>
attVars == <<days, apending, aresp, phase>>
userVars == <<users, uresp>>
dirVars == <<students, teachers, courses, dresp>>
otherVars == <<userVars, dirVars, inflight>>
vars == <<gradeVars, attVars, otherVars>>

----------------------------------------------------------------------------
(* Bounds of the model. *)

\* the most components an assignments or quizzes list of a drawn document holds
MaxItems == 2
\* the most components a list holds in the runs of grade requests
MaxStored == 1
\* the most per-student records a drawn attendance day holds
MaxRecords == 4
\* the most per-student records a day holds in the runs of attendance requests
MaxRoll == 2
\* the most creation requests in flight between their existence check and their save
MaxInflight == 2
\* the maxScore of the midterm whose scores walk the percentage scale in half points
HalfPoints == 200

----------------------------------------------------------------------------
(* JavaScript numbers as exact fractions n/d with d >= 0; d = 0 stands for   *)
(* the non-finite values: n > 0 is Infinity, n < 0 is -Infinity, n = 0 NaN.  *)

Abs(x) == IF x < 0 THEN -x ELSE x

RECURSIVE Gcd(_, _)
Gcd(a, b) == IF b = 0 THEN a ELSE Gcd(b, a % b)

Sign(x) == IF x > 0 THEN 1 ELSE IF x < 0 THEN -1 ELSE 0

Norm(n, d) ==
    IF d = 0 THEN [n |-> Sign(n), d |-> 0]
    ELSE LET s == IF d < 0 THEN -1 ELSE 1
             g == Gcd(Abs(n), Abs(d))
         IN  [n |-> (s * n) \div g, d |-> (s * d) \div g]

Num(x) == [n |-> x, d |-> 1]

\* Infinity + Infinity is Infinity, Infinity - Infinity is NaN
RAdd(a, b) ==
    IF a.d = 0 /\ b.d = 0
    THEN [n |-> IF a.n = b.n THEN a.n ELSE 0, d |-> 0]
    ELSE Norm(a.n * b.d + b.n * a.d, a.d * b.d)
RMul(a, b) == Norm(a.n * b.n, a.d * b.d)
\* a non-finite value divided by a finite one keeps or flips its sign
RDiv(a, b) ==
    IF a.d = 0 /\ b.d # 0
    THEN [n |-> IF b.n < 0 THEN -a.n ELSE a.n, d |-> 0]
    ELSE Norm(a.n * b.d, a.d * b.n)
IsNaN(a) == a.d = 0 /\ a.n = 0
\* a >= b and a > b of JavaScript: false when either side is NaN
RGe(a, b) ==
    /\ ~IsNaN(a) /\ ~IsNaN(b)
    /\ IF a.d = 0 /\ b.d = 0 THEN a.n >= b.n
       ELSE IF a.d = 0 THEN a.n > 0
       ELSE IF b.d = 0 THEN b.n < 0
       ELSE a.n * b.d >= b.n * a.d
RGt(a, b) == RGe(a, b) /\ a # b

----------------------------------------------------------------------------
(* The Grade model (gradeSchema). *)

\* an optional Number field: undefined until set
Undefined == [def |-> FALSE, v |-> 0]
Defined(x) == [def |-> TRUE, v |-> x]

RECURSIVE SumSeq(_, _)
\* Array.prototype.reduce((sum, x) => sum + f(x), 0): f is given as the sequence of terms
SumSeq(terms, acc) ==
    IF terms = <<>> THEN acc ELSE SumSeq(Tail(terms), RAdd(acc, Head(terms)))

\* the average with every component counted once, whatever its weight
ListAverage_Unweighted(list) ==
    IF Len(list) = 0 THEN Num(0)
    ELSE LET totalScore ==
                 SumSeq([i \in 1..Len(list) |->
                            RDiv(Num(list[i].score), Num(list[i].maxScore))], Num(0))
             totalWeight ==
                 SumSeq([i \in 1..Len(list) |-> Num(list[i].weight)], Num(0))
         IN  IF RGt(totalWeight, Num(0))
             THEN RMul(RDiv(totalScore, totalWeight), Num(100))
             ELSE Num(0)

ListAverage(list) ==
    IF Len(list) = 0 THEN Num(0)
    ELSE LET totalScore ==
                 SumSeq([i \in 1..Len(list) |->
                            RMul(RDiv(Num(list[i].score), Num(list[i].maxScore)),
                                 Num(list[i].weight))], Num(0))
             totalWeight ==
                 SumSeq([i \in 1..Len(list) |-> Num(list[i].weight)], Num(0))
         IN  IF RGt(totalWeight, Num(0))
             THEN RMul(RDiv(totalScore, totalWeight), Num(100))
             ELSE Num(0)

assignmentAverage(g) == ListAverage(g.assignments)

quizAverage(g) == ListAverage(g.quizzes)

assignmentWeight == 30
quizWeight == 20
midtermWeight == 25
finalWeight == 25

\* the running (totalScore, totalWeight) pair after one category's branch
AddCategory(tot, present, pct, w) ==
    IF present
    THEN [score |-> RAdd(tot.score, RMul(RDiv(pct, Num(100)), Num(w))),
          weight |-> tot.weight + w]
    ELSE tot

FixedPercentage(c) == RMul(RDiv(Num(c.score.v), Num(c.maxScore)), Num(100))

AssignmentsPresent(g) == Len(g.assignments) > 0
QuizzesPresent(g) == Len(g.quizzes) > 0
MidtermPresent(g) == g.midterm.score.def
FinalPresent(g) == g.final.score.def

\* calculatedGrade answering 100 when no category has data
calculatedGrade_EmptyIsFull(g) ==
    LET t0 == [score |-> Num(0), weight |-> 0]
        t1 == AddCategory(t0, AssignmentsPresent(g), assignmentAverage(g), assignmentWeight)
        t2 == AddCategory(t1, QuizzesPresent(g), quizAverage(g), quizWeight)
        t3 == AddCategory(t2, MidtermPresent(g), FixedPercentage(g.midterm), midtermWeight)
        t4 == AddCategory(t3, FinalPresent(g), FixedPercentage(g.final), finalWeight)
    IN  IF t4.weight > 0
        THEN RMul(RDiv(t4.score, Num(t4.weight)), Num(100))
        ELSE Num(100)

\* calculatedGrade with the quizzes weighted as the exams are
calculatedGrade_QuizWeight25(g) ==
    LET t0 == [score |-> Num(0), weight |-> 0]
        t1 == AddCategory(t0, AssignmentsPresent(g), assignmentAverage(g), assignmentWeight)
        t2 == AddCategory(t1, QuizzesPresent(g), quizAverage(g), midtermWeight)
        t3 == AddCategory(t2, MidtermPresent(g), FixedPercentage(g.midterm), midtermWeight)
        t4 == AddCategory(t3, FinalPresent(g), FixedPercentage(g.final), finalWeight)
    IN  IF t4.weight > 0
        THEN RMul(RDiv(t4.score, Num(t4.weight)), Num(100))
        ELSE Num(0)

calculatedGrade(g) ==
    LET t0 == [score |-> Num(0), weight |-> 0]
        t1 == AddCategory(t0, AssignmentsPresent(g), assignmentAverage(g), assignmentWeight)
        t2 == AddCategory(t1, QuizzesPresent(g), quizAverage(g), quizWeight)
        t3 == AddCategory(t2, MidtermPresent(g), FixedPercentage(g.midterm), midtermWeight)
        t4 == AddCategory(t3, FinalPresent(g), FixedPercentage(g.final), finalWeight)
    IN  IF t4.weight > 0
        THEN RMul(RDiv(t4.score, Num(t4.weight)), Num(100))
        ELSE Num(0)

\* the table with the bounds exclusive
LetterOf_Exclusive(percentage) ==
    IF RGt(percentage, Num(97)) THEN "A+"
    ELSE IF RGt(percentage, Num(93)) THEN "A"
    ELSE IF RGt(percentage, Num(90)) THEN "A-"
    ELSE IF RGt(percentage, Num(87)) THEN "B+"
    ELSE IF RGt(percentage, Num(83)) THEN "B"
    ELSE IF RGt(percentage, Num(80)) THEN "B-"
    ELSE IF RGt(percentage, Num(77)) THEN "C+"
    ELSE IF RGt(percentage, Num(73)) THEN "C"
    ELSE IF RGt(percentage, Num(70)) THEN "C-"
    ELSE IF RGt(percentage, Num(67)) THEN "D+"
    ELSE IF RGt(percentage, Num(63)) THEN "D"
    ELSE IF RGt(percentage, Num(60)) THEN "D-"
    ELSE "F"

LetterOf(percentage) ==
    IF RGe(percentage, Num(97)) THEN "A+"
    ELSE IF RGe(percentage, Num(93)) THEN "A"
    ELSE IF RGe(percentage, Num(90)) THEN "A-"
    ELSE IF RGe(percentage, Num(87)) THEN "B+"
    ELSE IF RGe(percentage, Num(83)) THEN "B"
    ELSE IF RGe(percentage, Num(80)) THEN "B-"
    ELSE IF RGe(percentage, Num(77)) THEN "C+"
    ELSE IF RGe(percentage, Num(73)) THEN "C"
    ELSE IF RGe(percentage, Num(70)) THEN "C-"
    ELSE IF RGe(percentage, Num(67)) THEN "D+"
    ELSE IF RGe(percentage, Num(63)) THEN "D"
    ELSE IF RGe(percentage, Num(60)) THEN "D-"
    ELSE "F"

letterGradeFromPercentage(g) == LetterOf(calculatedGrade(g))

\* gpaMap with the points of B+ and B exchanged
GpaOf_SwappedB(letter) ==
    CASE letter = "A+" -> 40 [] letter = "A" -> 40 [] letter = "A-" -> 37
      [] letter = "B+" -> 30 [] letter = "B" -> 33 [] letter = "B-" -> 27
      [] letter = "C+" -> 23 [] letter = "C" -> 20 [] letter = "C-" -> 17
      [] letter = "D+" -> 13 [] letter = "D" -> 10 [] letter = "D-" -> 7
      [] letter = "F" -> 0
      [] OTHER -> 0

\* gpaMap, in tenths of a grade point
GpaOf(letter) ==
    CASE letter = "A+" -> 40 [] letter = "A" -> 40 [] letter = "A-" -> 37
      [] letter = "B+" -> 33 [] letter = "B" -> 30 [] letter = "B-" -> 27
      [] letter = "C+" -> 23 [] letter = "C" -> 20 [] letter = "C-" -> 17
      [] letter = "D+" -> 13 [] letter = "D" -> 10 [] letter = "D-" -> 7
      [] letter = "F" -> 0
      [] OTHER -> 0

gpaFromLetter(g) == GpaOf(letterGradeFromPercentage(g))

\* the three assignments of gradeSchema.pre('save')
FinalGradeOf(g) ==
    LET percentage == calculatedGrade(g)
        letter == LetterOf(percentage)
    IN  [percentage |-> percentage, letterGrade |-> letter, gpa |-> GpaOf(letter)]

----------------------------------------------------------------------------
(* Users and the auth middleware. *)

NoUser == "anonymous"
\* the accounts that make requests
Users == {"admin1", "teacher1", "student1"}
\* the accounts of the User collection: one more student, who makes no request
Accounts == Users \cup {"student2"}
Roles == {"admin", "teacher", "student", "parent"}

Account(role) == [role |-> role, isActive |-> TRUE, stored |-> TRUE]
\* the User collection the system starts with
Registered ==
    [a \in Accounts |->
        Account(CASE a = "admin1" -> "admin" [] a = "teacher1" -> "teacher"
                  [] OTHER -> "student")]

\* req.user.role
Role(u) == users[u].role

\* the kind of caller a response is given to
Awaited == "pending"
Method == "model"
Caller(u) ==
    IF u \notin Users THEN u
    ELSE IF Role(u) \in {"admin", "teacher"} THEN "staff"
    ELSE Role(u)

\* requireRole(roles): the response that ends the request, "next" when it goes on
requireRole(roles, u) ==
    IF u = NoUser THEN "AUTH_REQUIRED"
    ELSE IF Role(u) \notin roles THEN "INSUFFICIENT_PERMISSIONS"
    ELSE "next"

requireAdmin(u) == requireRole({"admin"}, u)

\* a requireTeacher that lets every role pass
requireTeacher_AnyRole(u) == requireRole(Roles, u)

requireTeacher(u) == requireRole({"admin", "teacher"}, u)

\* an authenticateToken that does not look at isActive
authenticateToken_IgnoresActive(u) ==
    IF u = NoUser THEN "NO_TOKEN"
    ELSE IF ~users[u].stored THEN "INVALID_TOKEN"
    ELSE "next"

\* authenticateToken: 401 without a token, for a token whose user is gone, and for
\* a user who is not active
authenticateToken(u) ==
    IF u = NoUser THEN "NO_TOKEN"
    ELSE IF ~users[u].stored THEN "INVALID_TOKEN"
    ELSE IF ~users[u].isActive THEN "ACCOUNT_INACTIVE"
    ELSE "next"

AuthErrors ==
    {"NO_TOKEN", "INVALID_TOKEN", "ACCOUNT_INACTIVE", "AUTH_REQUIRED",
     "INSUFFICIENT_PERMISSIONS", "ACCESS_DENIED"}

\* the middleware chain [authenticateToken, requireTeacher]
TeacherOnly(u) ==
    IF authenticateToken(u) # "next" THEN authenticateToken(u) ELSE requireTeacher(u)

\* the middleware chain [authenticateToken, requireAdmin]
AdminOnly(u) ==
    IF authenticateToken(u) # "next" THEN authenticateToken(u) ELSE requireAdmin(u)

\* requireOwnershipOrAdmin('id'): an admin passes, anyone else only on their own id
requireOwnershipOrAdmin(u, id) ==
    IF u = NoUser THEN "AUTH_REQUIRED"
    ELSE IF Role(u) = "admin" THEN "next"
    ELSE IF id # u THEN "ACCESS_DENIED"
    ELSE "next"

----------------------------------------------------------------------------
(* Inputs of the grade requests. *)

SeqsUpTo(S, n) == UNION {[1..k -> S] : k \in 0..n}

None == <<>>
Some(x) == <<x>>
Has(o) == Len(o) > 0
Val(o) == o[1]

Students == {"s1"}
Courses == {"c1"}

Key(s, c, y, sem) == [student |-> s, course |-> c, academicYear |-> y, semester |-> sem]

\* one (student, course, year, semester) tuple, and one whose student does not exist
OneKey == {Key("s1", "c1", "2024", "1st"), Key("s0", "c1", "2024", "1st")}
TwoKeys == {Key("s1", "c1", "2024", "1st"), Key("s1", "c1", "2024", "2nd")}

Comp(s, m, w) == [score |-> s, maxScore |-> m, weight |-> w]
\* a full score, a half score, and a full score of weight 0
Comps == {Comp(2, 2, 1), Comp(1, 2, 1), Comp(2, 2, 0)}
Lists == SeqsUpTo(Comps, MaxItems)
\* the components of the runs of grade requests: a half score, a full score of weight 0
StoredComps == {Comp(1, 2, 1), Comp(2, 2, 0)}
ShortLists == SeqsUpTo(StoredComps, MaxStored)

Fixed(m, sc) == [maxScore |-> m, score |-> sc]
Scores == {Undefined, Defined(0), Defined(2)}
Fixeds == {Fixed(2, sc) : sc \in Scores}

\* participation and attendance, written only by create and PUT: absent or one value
Extras == {None, Some(80)}

CreateBody(k, as, qs, mt, fn, ex) ==
    [key |-> k, assignments |-> as, quizzes |-> qs, midterm |-> mt, final |-> fn,
     extras |-> ex]

\* creations of the runs of grade requests
CreateBodies(keys) ==
    {CreateBody(k, as, <<>>, mt, Fixed(2, Undefined), ex) :
        k \in keys, as \in ShortLists, mt \in Fixeds, ex \in Extras}

\* every document a creation can carry, within the bounds
AllBodies(keys) ==
    {CreateBody(k, as, qs, mt, fn, None) :
        k \in keys, as \in Lists, qs \in Lists, mt \in Fixeds, fn \in Fixeds}

\* components the handlers accept beside the well-formed ones: a score above maxScore,
\* a maxScore of 0, a negative score (a score of 0 over a maxScore of 0 is left out)
EdgeComps == {Comp(3, 2, 1), Comp(2, 0, 1), Comp(-1, 2, 1), Comp(2, 2, 1)}
EdgeLists == SeqsUpTo(EdgeComps, MaxItems)
EdgeFixeds == {Fixed(2, Undefined), Fixed(2, Defined(3)), Fixed(0, Defined(2))}

\* creations that carry such components
EdgeBodies(keys) ==
    {CreateBody(k, as, <<>>, mt, Fixed(2, Undefined), None) :
        k \in keys, as \in EdgeLists, mt \in EdgeFixeds}

\* a creation that carries no scores
BareBodies(keys) ==
    {CreateBody(k, <<>>, <<>>, Fixed(2, Undefined), Fixed(2, Undefined), ex) :
        k \in keys, ex \in Extras}

PutBody(as, qs, mt, fn, ex) ==
    [assignments |-> as, quizzes |-> qs, midterm |-> mt, final |-> fn, extras |-> ex]

\* PUT bodies: one field each, and one body that carries two
PutBodies ==
    {PutBody(Some(l), None, None, None, None) : l \in ShortLists}
    \cup {PutBody(None, Some(l), None, None, None) : l \in ShortLists}
    \cup {PutBody(None, None, Some([score |-> sc]), None, None) : sc \in Scores \ {Undefined}}
    \cup {PutBody(None, None, None, Some([score |-> sc]), None) : sc \in Scores \ {Undefined}}
    \cup {PutBody(None, None, None, None, Some(80))}
    \cup {PutBody(Some(<<Comp(1, 2, 1)>>), None, Some([score |-> Defined(2)]), None, None)}

\* a value of a JSON body: a number, or something that is not one
Numeric(x) == [numeric |-> TRUE, v |-> x]
NotNumeric == [numeric |-> FALSE, v |-> 0]

\* the body of POST /:id/assignments and of POST /:id/quizzes
AddBody(sc, m, w) == [score |-> sc, maxScore |-> m, weight |-> w]
\* bodies that carry the components of comps
AddBodiesOf(comps) == {AddBody(Numeric(c.score), Numeric(c.maxScore), c.weight) : c \in comps}
\* well-formed bodies, bodies with a negative score or maxScore, bodies with a
\* score or maxScore that is not a number
IntakeBodies ==
    AddBodiesOf({Comp(1, 2, 1), Comp(-1, 2, 1), Comp(1, -2, 1)})
    \cup {AddBody(NotNumeric, Numeric(2), 1), AddBody(Numeric(1), NotNumeric, 1)}

\* the components a document's finalGrade is computed from
Parts(g) ==
    [assignments |-> g.assignments, quizzes |-> g.quizzes,
     midterm |-> g.midterm, final |-> g.final]

\* FinalGradeOf of every document the runs of grade requests store, computed once
FinalGradeMemo ==
    [p \in {Parts(CreateBody(0, as, qs, mt, fn, None)) :
                as \in ShortLists, qs \in ShortLists, mt \in Fixeds, fn \in Fixeds}
        |-> FinalGradeOf(p)]

\* a hook that also publishes the document
GradePreSave_Publishes(g) ==
    [g EXCEPT !.finalGrade = FinalGradeOf(g), !.lastUpdated = 1, !.isPublished = TRUE]

\* gradeSchema.pre('save'): the document as it is written; lastUpdated is 0 while it
\* holds the default of the construction and 1 once the hook has set it to new Date()
GradePreSave(g) ==
    [g EXCEPT !.finalGrade = IF Parts(g) \in DOMAIN FinalGradeMemo
                             THEN FinalGradeMemo[Parts(g)]
                             ELSE FinalGradeOf(g),
              !.lastUpdated = 1]

----------------------------------------------------------------------------
(* The handlers of /api/grades and the model methods they call. *)

\* the response of a request, with the kind of caller that made it
GResp(u, op, id, code) == [by |-> Caller(u), op |-> op, id |-> id, code |-> code]

GradeIds == 1..Len(grades)
\* the ids a request may name: the stored ones and one that is not stored
RequestIds == 1..(Len(grades) + 1)

\* Grade.findOne({student, course, academicYear, semester})
GradeExists(k) == \E i \in GradeIds : grades[i].key = k

\* new Grade({...}) of POST /
NewGrade(u, body) ==
    [key |-> body.key,
     assignments |-> body.assignments, quizzes |-> body.quizzes,
     midterm |-> body.midterm, final |-> body.final, extras |-> body.extras,
     finalGrade |-> [percentage |-> Num(0), letterGrade |-> "F", gpa |-> 0],
     isPublished |-> FALSE, publishedAt |-> None, publishedBy |-> None,
     lastUpdated |-> 0]

\* a collection without the unique index
UniqueIndexFree_NoIndex(k) == TRUE

\* the unique index on (student, course, academicYear, semester) at insert
UniqueIndexFree(k) == ~GradeExists(k)

\* grade.save() of a new document: inserted unless the unique index rejects it
InsertGrade(doc) ==
    IF UniqueIndexFree(doc.key) THEN Append(grades, GradePreSave(doc)) ELSE grades

\* a save that skips the pre('save') hook
SaveGrade_NoHook(id, doc) == [grades EXCEPT ![id] = doc]

\* grade.save() of a loaded document
SaveGrade(id, doc) == [grades EXCEPT ![id] = GradePreSave(doc)]

\* the part of POST / before the existence check: the response that ends it, or "next"
CreateGate(u, k) ==
    IF TeacherOnly(u) # "next" THEN TeacherOnly(u)
    ELSE IF k.student \notin Students THEN "STUDENT_NOT_FOUND"
    ELSE IF k.course \notin Courses THEN "COURSE_NOT_FOUND"
    ELSE IF GradeExists(k) THEN "GRADE_EXISTS"
    ELSE "next"

\* POST /api/grades, run without interruption
CreateGrade(bodies) ==
    \E u \in Users \cup {NoUser}, k \in {body.key : body \in bodies} :
        /\ IF CreateGate(u, k) # "next"
           THEN /\ grades' = grades
                /\ gresp' = GResp(u, "create", 0, CreateGate(u, k))
           ELSE \E body \in {b \in bodies : b.key = k} :
                /\ grades' = InsertGrade(NewGrade(u, body))
                /\ gresp' = GResp(u, "create", Len(grades) + 1, "CREATED")
        /\ UNCHANGED <<gpending, attVars, otherVars>>

\* POST /api/grades up to its existence check: the request then awaits its save
CreateGradeCheck(bodies) ==
    \E u \in Users \cup {NoUser}, body \in bodies :
        /\ Len(gpending) < MaxInflight
        /\ IF CreateGate(u, body.key) # "next"
           THEN /\ gpending' = gpending
                /\ gresp' = GResp(u, "create", 0, CreateGate(u, body.key))
           ELSE /\ gpending' = Append(gpending, NewGrade(u, body))
                /\ gresp' = GResp(u, "create", 0, "pending")
        /\ grades' = grades
        /\ UNCHANGED <<attVars, otherVars>>

RemoveAt(s, i) == [j \in 1..(Len(s) - 1) |-> IF j < i THEN s[j] ELSE s[j + 1]]

\* POST /api/grades from grade.save() on: a duplicate key error is answered 500
CreateGradeSave ==
    \E i \in 1..Len(gpending) :
        /\ grades' = InsertGrade(gpending[i])
        /\ gresp' = IF UniqueIndexFree(gpending[i].key)
                    THEN GResp(Awaited, "create", Len(grades) + 1, "CREATED")
                    ELSE GResp(Awaited, "create", 0, "CREATE_GRADE_ERROR")
        /\ gpending' = RemoveAt(gpending, i)
        /\ UNCHANGED <<attVars, otherVars>>

\* { ...grade.midterm, ...midterm }
MergeFixed(old, patch) ==
    [maxScore |-> old.maxScore, score |-> patch.score]

\* the field updates of PUT /:id
ApplyPut(g, body) ==
    [g EXCEPT
        !.assignments = IF Has(body.assignments) THEN Val(body.assignments) ELSE @,
        !.quizzes = IF Has(body.quizzes) THEN Val(body.quizzes) ELSE @,
        !.midterm = IF Has(body.midterm) THEN MergeFixed(@, Val(body.midterm)) ELSE @,
        !.final = IF Has(body.final) THEN MergeFixed(@, Val(body.final)) ELSE @,
        !.extras = IF Has(body.extras) THEN body.extras ELSE @]

\* the gate without its isPublished test
LoadGate_NoPublishedTest(u, id, checksPublished) ==
    IF TeacherOnly(u) # "next" THEN TeacherOnly(u)
    ELSE IF id \notin GradeIds THEN "GRADE_NOT_FOUND"
    ELSE "next"

\* the part of a request on /:id before it changes the document
LoadGate(u, id, checksPublished) ==
    IF TeacherOnly(u) # "next" THEN TeacherOnly(u)
    ELSE IF id \notin GradeIds THEN "GRADE_NOT_FOUND"
    ELSE IF checksPublished /\ grades[id].isPublished THEN "GRADE_PUBLISHED"
    ELSE "next"

PutChecksPublished == TRUE
AddChecksPublished == TRUE

\* body('maxScore').isNumeric(), body('score').isNumeric(): a signed number passes
isNumeric(x) == x.numeric
\* validationResult(req).isEmpty()
AddValid(body) == isNumeric(body.maxScore) /\ isNumeric(body.score)

\* the part of POST /:id/assignments and POST /:id/quizzes before the document changes
AddGate(u, id, valid) ==
    IF TeacherOnly(u) # "next" THEN TeacherOnly(u)
    ELSE IF ~valid THEN "VALIDATION_FAILED"
    ELSE LoadGate(u, id, AddChecksPublished)

\* the component an accepted body is stored as
CompOf(body) == Comp(body.score.v, body.maxScore.v, body.weight)

\* the validation that save() runs before the pre('save') hook: the loaded
\* finalGrade.percentage against its min 0 and max 100
ValidateGrade(doc) ==
    RGe(doc.finalGrade.percentage, Num(0)) /\ RGe(Num(100), doc.finalGrade.percentage)

\* the 500 answer of the catch block of a handler
SaveError(op) ==
    CASE op = "put" -> "UPDATE_GRADE_ERROR"
      [] op = "addAssignment" -> "ADD_ASSIGNMENT_ERROR"
      [] op = "addQuiz" -> "ADD_QUIZ_ERROR"
      [] op = "publish" -> "PUBLISH_GRADES_ERROR"
      [] OTHER -> "ValidationError"

\* a request on /:id: rejected by its gate, or one of the changed documents saved
GradeRequest(u, op, id, gate, docs) ==
    /\ IF gate # "next"
       THEN /\ grades' = grades
            /\ gresp' = GResp(u, op, IF gate \in AuthErrors THEN 0 ELSE id, gate)
       ELSE \E doc \in docs :
            IF ValidateGrade(doc)
            THEN /\ grades' = SaveGrade(id, doc)
                 /\ gresp' = GResp(u, op, id, "OK")
            ELSE /\ grades' = grades
                 /\ gresp' = GResp(u, op, id, SaveError(op))
    /\ UNCHANGED <<gpending, attVars, otherVars>>

\* PUT /api/grades/:id
PutGrade ==
    \E u \in Users \cup {NoUser}, id \in RequestIds :
        GradeRequest(u, "put", id, LoadGate(u, id, PutChecksPublished),
                     {ApplyPut(grades[id], body) : body \in PutBodies})

\* gradeSchema.methods.addAssignment
addAssignment(g, a) == [g EXCEPT !.assignments = Append(@, a)]

\* gradeSchema.methods.addQuiz
addQuiz(g, q) == [g EXCEPT !.quizzes = Append(@, q)]

\* POST /api/grades/:id/assignments
PostAssignment(bodies) ==
    \E u \in Users \cup {NoUser}, id \in RequestIds, valid \in {AddValid(b) : b \in bodies} :
        /\ id \in GradeIds => Len(grades[id].assignments) < MaxStored
        /\ GradeRequest(u, "addAssignment", id, AddGate(u, id, valid),
                        {addAssignment(grades[id], CompOf(b)) :
                            b \in {x \in bodies : AddValid(x) = valid}})

\* POST /api/grades/:id/quizzes
PostQuiz(bodies) ==
    \E u \in Users \cup {NoUser}, id \in RequestIds, valid \in {AddValid(b) : b \in bodies} :
        /\ id \in GradeIds => Len(grades[id].quizzes) < MaxStored
        /\ GradeRequest(u, "addQuiz", id, AddGate(u, id, valid),
                        {addQuiz(grades[id], CompOf(b)) :
                            b \in {x \in bodies : AddValid(x) = valid}})

\* gradeSchema.methods.updateMidterm, called on a loaded document
updateMidterm(scores) ==
    \E id \in GradeIds, sc \in scores :
        /\ IF ValidateGrade(grades[id])
           THEN /\ grades' = SaveGrade(id, [grades[id] EXCEPT
                                               !.midterm = MergeFixed(@, [score |-> sc])])
                /\ gresp' = GResp(Method, "updateMidterm", id, "OK")
           ELSE /\ grades' = grades
                /\ gresp' = GResp(Method, "updateMidterm", id, SaveError("updateMidterm"))
        /\ UNCHANGED <<gpending, attVars, otherVars>>

\* gradeSchema.methods.updateFinal, called on a loaded document
updateFinal ==
    \E id \in GradeIds, sc \in Scores \ {Undefined} :
        /\ IF ValidateGrade(grades[id])
           THEN /\ grades' = SaveGrade(id, [grades[id] EXCEPT
                                               !.final = MergeFixed(@, [score |-> sc])])
                /\ gresp' = GResp(Method, "updateFinal", id, "OK")
           ELSE /\ grades' = grades
                /\ gresp' = GResp(Method, "updateFinal", id, SaveError("updateFinal"))
        /\ UNCHANGED <<gpending, attVars, otherVars>>

\* a publishGrades that does not record who published
publishGrades_NoActor(g, u) ==
    [g EXCEPT !.isPublished = TRUE, !.publishedAt = Some("now")]

\* gradeSchema.methods.publishGrades
publishGrades(g, u) ==
    [g EXCEPT !.isPublished = TRUE, !.publishedAt = Some("now"), !.publishedBy = Some(u)]

\* POST /api/grades/:id/publish
PublishGrade ==
    \E u \in Users \cup {NoUser}, id \in RequestIds :
        GradeRequest(u, "publish", id, LoadGate(u, id, FALSE),
                     {publishGrades(grades[id], u)})

----------------------------------------------------------------------------
(* The Attendance model (attendanceSchema). *)

Statuses == {"present", "absent", "late", "excused", "suspended"}

\* this.records.filter(r => r.status === st).length
CountStatus(records, st) == Cardinality({i \in 1..Len(records) : records[i].status = st})

\* (num / den * 100).toFixed(2), in hundredths of a percent
ToFixed2(num, den) == (2 * num * 10000 + den) \div (2 * den)

\* attendanceSchema.pre('save'): the document as it is written
AttPreSave(d) ==
    IF Len(d.records) > 0
    THEN LET p == CountStatus(d.records, "present")
             a == CountStatus(d.records, "absent")
             l == CountStatus(d.records, "late")
             e == CountStatus(d.records, "excused")
             totalMarked == p + a + l + e
         IN  [d EXCEPT !.presentCount = p, !.absentCount = a,
                       !.lateCount = l, !.excusedCount = e,
                       !.attendancePercentage =
                           IF totalMarked > 0 THEN ToFixed2(p + l, totalMarked) ELSE @]
    ELSE d

\* records.findIndex(record => record.student.toString() === studentId): 0 stands for -1
FindIndex(records, studentId) ==
    IF \E i \in 1..Len(records) : records[i].student = studentId
    THEN CHOOSE i \in 1..Len(records) :
            /\ records[i].student = studentId
            /\ \A j \in 1..(i - 1) : records[j].student # studentId
    ELSE 0

SetStatus(records, studentId, status) ==
    IF FindIndex(records, studentId) # 0
    THEN [records EXCEPT ![FindIndex(records, studentId)].status = status]
    ELSE records

RECURSIVE ApplyUpdates(_, _)
\* records.forEach(updateRecord => ...) of PUT /:id
ApplyUpdates(records, ups) ==
    IF ups = <<>> THEN records
    ELSE ApplyUpdates(SetStatus(records, Head(ups).studentId, Head(ups).status), Tail(ups))

----------------------------------------------------------------------------
(* Inputs of the attendance requests. *)

Date(d, t) == [day |-> d, time |-> t]
\* one instant, and two instants of the same calendar day
OneDate == {Date(1, 0)}
SameDayDates == {Date(1, 0), Date(1, 1)}

\* the records of a creation request: student i holds the i-th status
MakeRecords(sts) == [i \in 1..Len(sts) |-> [student |-> i, status |-> sts[i]]]
Rolls == {MakeRecords(sts) : sts \in SeqsUpTo(Statuses, MaxRecords)}
ShortRolls == {MakeRecords(sts) : sts \in SeqsUpTo(Statuses, MaxRoll)}
BareRolls == {MakeRecords(sts) : sts \in {<<>>, <<"present">>}}

AttBody(c, d, r) == [courseId |-> c, date |-> d, records |-> r]
AttBodies(dates, rolls) ==
    {AttBody(c, d, r) : c \in Courses \cup {"c0"}, d \in dates, r \in rolls}

Update(s, st) == [studentId |-> s, status |-> st]
\* the records of a PUT body: absent, one student (stored or not), or every student
UpdateBodies ==
    {None}
    \cup {Some(<<Update(s, st)>>) : s \in 1..(MaxRoll + 1), st \in Statuses}
    \cup {Some([i \in 1..MaxRoll |-> Update(i, st)]) : st \in Statuses}

----------------------------------------------------------------------------
(* The handlers of /api/attendance and the model methods they call. *)

AResp(u, op, id, code, req) ==
    [by |-> Caller(u), op |-> op, id |-> id, code |-> code, req |-> req]

DayIds == 1..Len(days)
DayRequestIds == 1..(Len(days) + 1)

\* Attendance.findByDateAndCourse: a stored day within the calendar day of date
findByDateAndCourse(date, courseId) ==
    \E i \in DayIds : days[i].date.day = date.day /\ days[i].course = courseId

\* the unique index on (date, course) at insert: date is the full instant
DateIndexFree(date, courseId) ==
    ~\E i \in DayIds : days[i].date = date /\ days[i].course = courseId

\* new Attendance({...}) of POST /
NewDay(body) ==
    [date |-> body.date, course |-> body.courseId, records |-> body.records,
     totalStudents |-> Len(body.records),
     presentCount |-> 0, absentCount |-> 0, lateCount |-> 0, excusedCount |-> 0,
     attendancePercentage |-> 0,
     isLocked |-> FALSE, lockedBy |-> None, lockedAt |-> None]

InsertDay(doc) ==
    IF DateIndexFree(doc.date, doc.course) THEN Append(days, AttPreSave(doc)) ELSE days

SaveDay(id, doc) == [days EXCEPT ![id] = AttPreSave(doc)]

AttCreateGate(u, courseId, date) ==
    IF TeacherOnly(u) # "next" THEN TeacherOnly(u)
    ELSE IF courseId \notin Courses THEN "COURSE_NOT_FOUND"
    ELSE IF findByDateAndCourse(date, courseId) THEN "ATTENDANCE_EXISTS"
    ELSE "next"

\* the phase after a request that reached the day
NextPhase(op) ==
    CASE op = "lock" -> 1
      [] op = "put" -> IF phase = 1 THEN 2 ELSE IF phase = 3 THEN 4 ELSE 0
      [] op = "unlock" -> IF phase = 2 THEN 3 ELSE 0
      [] OTHER -> 0

\* POST /api/attendance, run without interruption
CreateAttendance(bodies) ==
    \E u \in Users \cup {NoUser}, c \in {b.courseId : b \in bodies},
       d \in {b.date : b \in bodies} :
        /\ IF AttCreateGate(u, c, d) # "next"
           THEN /\ days' = days
                /\ aresp' = AResp(u, "create", 0, AttCreateGate(u, c, d), None)
                /\ phase' = phase
           ELSE \E body \in {b \in bodies : b.courseId = c /\ b.date = d} :
                /\ days' = InsertDay(NewDay(body))
                /\ aresp' = AResp(u, "create", Len(days) + 1, "CREATED", None)
                /\ phase' = NextPhase("create")
        /\ UNCHANGED <<apending, gradeVars, otherVars>>

\* POST /api/attendance up to its existence check
CreateAttendanceCheck(bodies) ==
    \E u \in Users \cup {NoUser}, body \in bodies :
        /\ Len(apending) < MaxInflight
        /\ IF AttCreateGate(u, body.courseId, body.date) # "next"
           THEN /\ apending' = apending
                /\ aresp' = AResp(u, "create", 0, AttCreateGate(u, body.courseId, body.date), None)
           ELSE /\ apending' = Append(apending, NewDay(body))
                /\ aresp' = AResp(u, "create", 0, "pending", None)
        /\ UNCHANGED <<days, phase, gradeVars, otherVars>>

\* POST /api/attendance from attendance.save() on
CreateAttendanceSave ==
    \E i \in 1..Len(apending) :
        /\ days' = InsertDay(apending[i])
        /\ aresp' = IF DateIndexFree(apending[i].date, apending[i].course)
                    THEN AResp(Awaited, "create", Len(days) + 1, "CREATED", None)
                    ELSE AResp(Awaited, "create", 0, "CREATE_ATTENDANCE_ERROR", None)
        /\ apending' = RemoveAt(apending, i)
        /\ UNCHANGED <<phase, gradeVars, otherVars>>

\* the part of a request on /:id before it changes the document
DayGate(u, id, checksLocked) ==
    IF TeacherOnly(u) # "next" THEN TeacherOnly(u)
    ELSE IF id \notin DayIds THEN "ATTENDANCE_NOT_FOUND"
    ELSE IF checksLocked /\ days[id].isLocked THEN "ATTENDANCE_LOCKED"
    ELSE "next"

ReachedDay(gate) == gate \in {"next", "ATTENDANCE_LOCKED"}

\* a request body and the document it changes the loaded one into
Changed(body, doc) == [body |-> body, doc |-> doc]

\* a request on /:id: rejected by its gate, or one of the changed documents saved
DayRequest(u, op, id, gate, changes) ==
    /\ IF gate # "next"
       THEN /\ days' = days
            /\ aresp' = AResp(u, op, IF gate \in AuthErrors THEN 0 ELSE id, gate, None)
       ELSE \E c \in changes :
            /\ days' = SaveDay(id, c.doc)
            /\ aresp' = AResp(u, op, id, "OK", c.body)
    /\ phase' = IF ReachedDay(gate) THEN NextPhase(op) ELSE phase
    /\ UNCHANGED <<apending, gradeVars, otherVars>>

PutChecksLocked == TRUE

\* the record updates of PUT /:id
ApplyAttPut(d, body) ==
    IF Has(body) THEN [d EXCEPT !.records = ApplyUpdates(@, Val(body))] ELSE d

\* PUT /api/attendance/:id
PutAttendance ==
    \E u \in Users \cup {NoUser}, id \in DayRequestIds :
        DayRequest(u, "put", id, DayGate(u, id, PutChecksLocked),
                   {Changed(body, ApplyAttPut(days[id], body)) : body \in UpdateBodies})

\* attendanceSchema.methods.lockAttendance
lockAttendance(d, u) ==
    [d EXCEPT !.isLocked = TRUE, !.lockedBy = Some(u), !.lockedAt = Some("now")]

\* an unlock that keeps the actor and the time of the lock
unlockAttendance_KeepsActor(d) == [d EXCEPT !.isLocked = FALSE]

\* attendanceSchema.methods.unlockAttendance
unlockAttendance(d) ==
    [d EXCEPT !.isLocked = FALSE, !.lockedBy = None, !.lockedAt = None]

\* POST /api/attendance/:id/lock
LockAttendance ==
    \E u \in Users \cup {NoUser}, id \in DayRequestIds :
        DayRequest(u, "lock", id, DayGate(u, id, FALSE),
                   {Changed(None, lockAttendance(days[id], u))})

\* POST /api/attendance/:id/unlock
UnlockAttendance ==
    \E u \in Users \cup {NoUser}, id \in DayRequestIds :
        DayRequest(u, "unlock", id, DayGate(u, id, FALSE),
                   {Changed(None, unlockAttendance(days[id]))})

\* the guard of markAttendance: the error it throws, or "next"
MarkGate(d, studentId) ==
    IF FindIndex(d.records, studentId) = 0
    THEN "Student not found in attendance records"
    ELSE "next"

\* attendanceSchema.methods.markAttendance, called on a loaded document
markAttendance ==
    \E id \in DayIds, s \in 1..(MaxRoll + 1), st \in Statuses :
        /\ IF MarkGate(days[id], s) # "next"
           THEN /\ days' = days
                /\ aresp' = AResp(Method, "mark", id, MarkGate(days[id], s), None)
           ELSE /\ days' = SaveDay(id, [days[id] EXCEPT
                                           !.records = SetStatus(@, s, st)])
                /\ aresp' = AResp(Method, "mark", id, "OK", Some(<<Update(s, st)>>))
        /\ phase' = NextPhase("mark")
        /\ UNCHANGED <<apending, gradeVars, otherVars>>

----------------------------------------------------------------------------
(* Specifications. *)

NoResp == [by |-> "none", op |-> "none", id |-> 0, code |-> "none"]
NoAResp == [by |-> "none", op |-> "none", id |-> 0, code |-> "none", req |-> None]
NoUResp == [by |-> "none", op |-> "none", id |-> "none", code |-> "none"]
NoDResp == [by |-> "none", op |-> "none", id |-> 0, code |-> "none", made |-> None]

\* the collections beside Grade and Attendance, as the system starts
OtherInit ==
    /\ users = Registered
    /\ uresp = NoUResp
    /\ students = <<>>
    /\ teachers = <<>>
    /\ courses = <<>>
    /\ dresp = NoDResp
    /\ inflight = <<>>

Init ==
    /\ grades = <<>>
    /\ gpending = <<>>
    /\ gresp = NoResp
    /\ days = <<>>
    /\ apending = <<>>
    /\ aresp = NoAResp
    /\ phase = 0
    /\ OtherInit

\* the grade requests, each run without interruption
GradeNext ==
    \/ CreateGrade(CreateBodies(OneKey))
    \/ PutGrade
    \/ PostAssignment(AddBodiesOf(StoredComps))
    \/ PostQuiz(AddBodiesOf(StoredComps))
    \/ updateMidterm(Scores \ {Undefined})
    \/ updateFinal
    \/ PublishGrade

GradeSpec == Init /\ [][GradeNext]_vars

\* creations without scores, then components added by requests of every kind of body
IntakeNext ==
    \/ CreateGrade(BareBodies(OneKey))
    \/ PostAssignment(IntakeBodies)
    \/ PostQuiz(IntakeBodies)

IntakeSpec == Init /\ [][IntakeNext]_vars

\* concurrent grade creations: every request checks, then saves
GradeRaceNext ==
    \/ CreateGradeCheck(BareBodies(TwoKeys))
    \/ CreateGradeSave

GradeRaceSpec == Init /\ [][GradeRaceNext]_vars

\* the attendance requests, each run without interruption
AttNext ==
    \/ CreateAttendance(AttBodies(OneDate, ShortRolls))
    \/ PutAttendance
    \/ LockAttendance
    \/ UnlockAttendance
    \/ markAttendance

AttSpec == Init /\ [][AttNext]_vars

\* concurrent attendance creations: every request checks, then saves
AttRaceNext ==
    \/ CreateAttendanceCheck(AttBodies(SameDayDates, BareRolls))
    \/ CreateAttendanceSave

AttRaceSpec == Init /\ [][AttRaceNext]_vars

\* one drawn grade document, saved: calculatedGrade and its virtuals applied to it
CalcInit ==
    /\ grades = <<>>
    /\ gpending \in {<<NewGrade("teacher1", body)>> :
                        body \in AllBodies({Key("s1", "c1", "2024", "1st")})
                                 \cup EdgeBodies({Key("s1", "c1", "2024", "1st")})}
    /\ gresp = NoResp
    /\ days = <<>>
    /\ apending = <<>>
    /\ aresp = NoAResp
    /\ phase = 0
    /\ OtherInit

CalcSpec == CalcInit /\ [][CreateGradeSave]_vars

\* a document whose only score is its midterm, set to every half point of the scale
ScaleInit ==
    /\ grades = <<>>
    /\ gpending = <<NewGrade("teacher1",
                        CreateBody(Key("s1", "c1", "2024", "1st"), <<>>, <<>>,
                                   Fixed(HalfPoints, Undefined), Fixed(2, Undefined), None))>>
    /\ gresp = NoResp
    /\ days = <<>>
    /\ apending = <<>>
    /\ aresp = NoAResp
    /\ phase = 0
    /\ OtherInit

ScaleNext ==
    \/ CreateGradeSave
    \/ updateMidterm({Defined(p) : p \in 0..HalfPoints})

ScaleSpec == ScaleInit /\ [][ScaleNext]_vars

\* one drawn attendance day, saved: the tally and the percentage applied to it
TallyInit ==
    /\ grades = <<>>
    /\ gpending = <<>>
    /\ gresp = NoResp
    /\ days = <<>>
    /\ apending \in {<<NewDay(AttBody("c1", Date(1, 0), r))>> : r \in Rolls}
    /\ aresp = NoAResp
    /\ phase = 0
    /\ OtherInit

TallySpec == TallyInit /\ [][CreateAttendanceSave]_vars

\* the requests of both routers: /api/grades and /api/attendance share no state, so
\* the runs in which one of them is used cover the requests of either
AttUntouched == days = <<>> /\ apending = <<>> /\ aresp = NoAResp /\ phase = 0
GradesUntouched == grades = <<>> /\ gpending = <<>> /\ gresp = NoResp
AccessNext ==
    \/ AttUntouched /\ GradeNext
    \/ GradesUntouched /\ AttNext

AccessSpec == Init /\ [][AccessNext]_vars

----------------------------------------------------------------------------
(* Properties of the grade computation. *)

Categories == {"assignments", "quizzes", "midterm", "final"}

HasData(g, c) ==
    CASE c = "assignments" -> g.assignments # <<>>
      [] c = "quizzes" -> g.quizzes # <<>>
      [] c = "midterm" -> g.midterm.score.def
      [] c = "final" -> g.final.score.def

StatedWeight(c) ==
    CASE c = "assignments" -> 30 [] c = "quizzes" -> 20
      [] c = "midterm" -> 25 [] c = "final" -> 25

CategoryPercentage(g, c) ==
    CASE c = "assignments" -> assignmentAverage(g)
      [] c = "quizzes" -> quizAverage(g)
      [] c = "midterm" -> RDiv(Num(100 * g.midterm.score.v), Num(g.midterm.maxScore))
      [] c = "final" -> RDiv(Num(100 * g.final.score.v), Num(g.final.maxScore))

RECURSIVE SumOver(_, _)
\* the sum of f[c] over the c in S
SumOver(S, f) ==
    IF S = {} THEN Num(0)
    ELSE LET c == CHOOSE x \in S : TRUE IN RAdd(f[c], SumOver(S \ {c}, f))

WithData(g) == {c \in Categories : HasData(g, c)}

\* 100 * sum(categoryPercentage / 100 * weight) / sum(weight) over the categories with data
StatedPercentage(g) ==
    LET Term == [c \in WithData(g) |->
                    RMul(RDiv(CategoryPercentage(g, c), Num(100)), Num(StatedWeight(c)))]
        Weight == [c \in WithData(g) |-> Num(StatedWeight(c))]
    IN  RMul(Num(100), RDiv(SumOver(WithData(g), Term), SumOver(WithData(g), Weight)))

\* C1: the percentage written at save is the fixed-weight blend (30, 20, 25, 25) of the
\* categories that have data; a category without data adds to neither sum
C1_FixedWeightBlend ==
    \A i \in GradeIds :
        WithData(grades[i]) # {} =>
            grades[i].finalGrade.percentage = StatedPercentage(grades[i])

\* a saved document with two categories of different percentages and two without data
C1_Witness ==
    \E i \in GradeIds :
        /\ WithData(grades[i]) = {"assignments", "quizzes"}
        /\ assignmentAverage(grades[i]) = Num(50)
        /\ quizAverage(grades[i]) = Num(100)
        /\ grades[i].finalGrade.percentage = Num(70)

FinalGradeConsistent(g) ==
    /\ g.finalGrade.percentage = calculatedGrade(g)
    /\ g.finalGrade.letterGrade = LetterOf(g.finalGrade.percentage)
    /\ g.finalGrade.gpa = GpaOf(g.finalGrade.letterGrade)

Components(g) ==
    <<g.assignments, g.quizzes, g.midterm, g.final, g.extras, g.finalGrade>>

MutatingGradeOps == {"put", "addAssignment", "addQuiz"}

\* C3: a PUT, add-assignment or add-quiz request that reaches a published document is
\* answered GRADE_PUBLISHED and leaves its components and finalGrade as they were
C3_PublishedRejects ==
    [][\A i \in GradeIds :
          (grades[i].isPublished /\ gresp'.op \in MutatingGradeOps /\ gresp'.id = i)
              => (gresp'.code = "GRADE_PUBLISHED"
                  /\ Components(grades'[i]) = Components(grades[i]))]_vars

\* a PUT on a published document that holds scores was rejected
C3_Witness ==
    /\ gresp.op = "put" /\ gresp.code = "GRADE_PUBLISHED"
    /\ grades[gresp.id].isPublished
    /\ grades[gresp.id].assignments # <<>>

Perfect(c) == c.score = c.maxScore
AllPerfect(g) ==
    /\ \A k \in 1..Len(g.assignments) : Perfect(g.assignments[k])
    /\ \A k \in 1..Len(g.quizzes) : Perfect(g.quizzes[k])
    /\ g.midterm.score.def => g.midterm.score.v = g.midterm.maxScore
    /\ g.final.score.def => g.final.score.v = g.final.maxScore

\* C10: a saved document whose every present score equals its maxScore, whatever the
\* weights, has percentage 100 and letter A+
C10_PerfectIsAPlus ==
    \A i \in GradeIds :
        (WithData(grades[i]) # {} /\ AllPerfect(grades[i]))
            => (grades[i].finalGrade.percentage = Num(100)
                /\ grades[i].finalGrade.letterGrade = "A+")

UniqueKeys == \A i, j \in GradeIds : grades[i].key = grades[j].key => i = j

\* C8: the store never holds two grade documents of one (student, course, year, semester)
\* tuple, and the save of a creation whose tuple is stored fails and stores nothing
C8_OneGradePerTuple ==
    /\ []UniqueKeys
    /\ [][\A k \in 1..Len(gpending) :
            (gpending' = RemoveAt(gpending, k) /\ GradeExists(gpending[k].key))
                => (grades' = grades /\ gresp'.code = "CREATE_GRADE_ERROR")]_vars
    /\ [][gresp'.code = "GRADE_EXISTS" => grades' = grades]_vars

\* two creations of one tuple passed the existence check; the second save was rejected
C8_Witness ==
    /\ gresp.code = "CREATE_GRADE_ERROR"
    /\ Len(grades) = 1

----------------------------------------------------------------------------
(* Properties of the attendance roll-up and the lock. *)

Marked(records) ==
    CountStatus(records, "present") + CountStatus(records, "absent")
    + CountStatus(records, "late") + CountStatus(records, "excused")

Attended(records) == CountStatus(records, "present") + CountStatus(records, "late")

\* h hundredths is Attended / Marked * 100 rounded to 2 decimals, and 0 when Marked is 0
IsStatedPercentage(h, records) ==
    IF Marked(records) = 0 THEN h = 0
    ELSE 2 * Abs(h * Marked(records) - 10000 * Attended(records)) <= Marked(records)

\* C5: after the save of a creation or of an update, attendancePercentage is
\* (present + late) / (present + absent + late + excused) * 100 to 2 decimals of the
\* current records, and 0 when that denominator is 0
C5_PercentageOfRecords ==
    (aresp.op \in {"create", "put"} /\ aresp.code \in {"CREATED", "OK"})
        => IsStatedPercentage(days[aresp.id].attendancePercentage, days[aresp.id].records)

\* C4: a PUT or a markAttendance that reaches a locked day is answered with the locked
\* error and leaves the day as it was
C4_LockedRejects ==
    [][\A i \in DayIds :
          (days[i].isLocked /\ aresp'.op \in {"put", "mark"} /\ aresp'.id = i)
              => (aresp'.code = "ATTENDANCE_LOCKED" /\ days'[i] = days[i])]_vars

LockFields(d) == <<d.isLocked, d.lockedBy, d.lockedAt>>

LockConsistent(d) ==
    /\ d.isLocked <=> Has(d.lockedBy)
    /\ d.isLocked <=> Has(d.lockedAt)

\* C6: a day starts open; isLocked holds exactly when lockedBy and lockedAt are set; the
\* three fields change only by a lock, which records an actor, and by an unlock, which
\* clears both
C6_LockStateMachine ==
    /\ [](\A i \in DayIds : LockConsistent(days[i]))
    /\ [][\A i \in 1..Len(days') :
            IF i \in DayIds
            THEN LockFields(days'[i]) # LockFields(days[i])
                 => /\ aresp'.id = i /\ aresp'.code = "OK"
                    /\ \/ /\ aresp'.op = "lock"
                          /\ days'[i].isLocked
                          /\ Val(days'[i].lockedBy) \in Users
                       \/ /\ aresp'.op = "unlock"
                          /\ days[i].isLocked
                          /\ LockFields(days'[i]) = <<FALSE, None, None>>
            ELSE LockFields(days'[i]) = <<FALSE, None, None>>]_vars

\* a day was locked, an update was refused, and the day was unlocked
C6_Witness ==
    /\ phase = 3
    /\ aresp.op = "unlock" /\ aresp.code = "OK"
    /\ \E i \in DayIds : ~days[i].isLocked /\ days[i].records # <<>>

Tallied(d) ==
    /\ d.presentCount = CountStatus(d.records, "present")
    /\ d.absentCount = CountStatus(d.records, "absent")
    /\ d.lateCount = CountStatus(d.records, "late")
    /\ d.excusedCount = CountStatus(d.records, "excused")
    /\ IsStatedPercentage(d.attendancePercentage, d.records)

\* the statuses a PUT body asked for are the stored ones
Stored(d, req) ==
    Has(req) =>
        \A k \in 1..Len(Val(req)) :
            FindIndex(d.records, Val(req)[k].studentId) # 0
                => d.records[FindIndex(d.records, Val(req)[k].studentId)].status
                       = Val(req)[k].status

\* the last request was a PUT that reached a stored day
LastWasUpdate == aresp.op = "put" /\ aresp.id \in DayIds

\* C7: in lock, update, unlock, update the first update fails with the locked error and
\* changes nothing, and the second succeeds: its statuses are stored and the counts and
\* the percentage are those of the stored records
C7_LockUpdateUnlockUpdate ==
    /\ []((phase = 2 /\ LastWasUpdate) => aresp.code = "ATTENDANCE_LOCKED")
    /\ [][(phase = 1 /\ phase' = 2) => days' = days]_vars
    /\ []((phase = 4 /\ LastWasUpdate)
            => /\ aresp.code = "OK"
               /\ Stored(days[aresp.id], aresp.req)
               /\ Tallied(days[aresp.id]))

\* C9: the store never holds two attendance days of one calendar date and course
C9_OneDayPerDateAndCourse ==
    \A i, j \in DayIds :
        (days[i].date.day = days[j].date.day /\ days[i].course = days[j].course) => i = j

----------------------------------------------------------------------------
(* Further properties of the grade computation. *)

Last(list) == list[Len(list)]

\* C11: an accepted add-quiz request whose quiz has weight 0 leaves the stored
\* percentage as it was, also when the quiz list was empty
C11_ZeroWeightQuizKeepsPercentage ==
    [][\A i \in GradeIds :
          (gresp'.op = "addQuiz" /\ gresp'.code = "OK" /\ gresp'.id = i
           /\ Last(grades'[i].quizzes).weight = 0)
              => grades'[i].finalGrade.percentage = grades[i].finalGrade.percentage]_vars

\* the components of g satisfy the data model: maxScore > 0, score >= 0, weight >= 0
ComponentOk(c) == c.maxScore > 0 /\ c.score >= 0 /\ c.weight >= 0
FixedOk(c) == c.maxScore > 0 /\ (c.score.def => c.score.v >= 0)
DataModelOk(g) ==
    /\ \A k \in 1..Len(g.assignments) : ComponentOk(g.assignments[k])
    /\ \A k \in 1..Len(g.quizzes) : ComponentOk(g.quizzes[k])
    /\ FixedOk(g.midterm) /\ FixedOk(g.final)

InRange(percentage) == RGe(percentage, Num(0)) /\ RGe(Num(100), percentage)

\* C12: the stored percentage of a document whose components satisfy the data model
\* lies in [0, 100]
C12_PercentageInRange ==
    \A i \in GradeIds :
        DataModelOk(grades[i]) => InRange(grades[i].finalGrade.percentage)

\* the computation of g's percentage divides by a maxScore that is not positive
DividesByZero(g) ==
    \/ \E k \in 1..Len(g.assignments) : g.assignments[k].maxScore <= 0
    \/ \E k \in 1..Len(g.quizzes) : g.quizzes[k].maxScore <= 0
    \/ g.midterm.score.def /\ g.midterm.maxScore <= 0
    \/ g.final.score.def /\ g.final.maxScore <= 0

\* C13: no document whose computation divides by a maxScore <= 0 is stored with a
\* finalGrade: its save fails with an error
C13_NoDivisionByZero == \A i \in GradeIds : ~DividesByZero(grades[i])

NoNegative(list) == \A k \in 1..Len(list) : list[k].score >= 0 /\ list[k].maxScore >= 0

\* C14: a write whose score or maxScore is negative or not a number is answered with
\* a validation error and stores nothing: no stored component is negative, and a
\* request answered with the validation error leaves the collection as it was
C14_MalformedRejected ==
    /\ [](\A i \in GradeIds :
             NoNegative(grades[i].assignments) /\ NoNegative(grades[i].quizzes))
    /\ [][gresp'.code = "VALIDATION_FAILED" => grades' = grades]_vars

----------------------------------------------------------------------------
(* Further properties of the attendance roll-up. *)

\* the stored document holds a suspendedCount, the number of its suspended records
TracksSuspended(d) ==
    /\ "suspendedCount" \in DOMAIN d
    /\ d.suspendedCount = CountStatus(d.records, "suspended")

\* C15: every stored day holds, for each of the five statuses, the number of its
\* records of that status, and its percentage is that of the records that are not
\* suspended
C15_TallyByStatus ==
    \A i \in DayIds :
        /\ Tallied(days[i])
        /\ TracksSuspended(days[i])

----------------------------------------------------------------------------
(* Properties of the category averages, the letter and the grade points. *)

RECURSIVE ScoreSum(_)
\* the sum of score / maxScore * weight over the components of list
ScoreSum(list) ==
    IF list = <<>> THEN Num(0)
    ELSE RAdd(RMul(RDiv(Num(Head(list).score), Num(Head(list).maxScore)),
                   Num(Head(list).weight)),
              ScoreSum(Tail(list)))

RECURSIVE WeightSum(_)
\* the sum of the weights of list
WeightSum(list) == IF list = <<>> THEN 0 ELSE Head(list).weight + WeightSum(Tail(list))

StatedAverage(list) == RMul(RDiv(ScoreSum(list), Num(WeightSum(list))), Num(100))

CategoryLists(g) == {g.assignments, g.quizzes}

\* C16 as stated: the average of a non-empty list is sum(score / maxScore * weight) /
\* sum(weight) * 100, and the average of an empty list is 0
C16_AverageAsStated ==
    \A i \in GradeIds : \A list \in CategoryLists(grades[i]) :
        ListAverage(list) = IF list = <<>> THEN Num(0) ELSE StatedAverage(list)

\* C16: the average of a list whose weights sum to more than 0 is sum(score / maxScore
\* * weight) / sum(weight) * 100; the average of an empty list, and of a list whose
\* weights sum to 0, is 0
C16_CategoryAverage ==
    \A i \in GradeIds :
        /\ assignmentAverage(grades[i])
               = IF WeightSum(grades[i].assignments) > 0
                 THEN StatedAverage(grades[i].assignments) ELSE Num(0)
        /\ quizAverage(grades[i])
               = IF WeightSum(grades[i].quizzes) > 0
                 THEN StatedAverage(grades[i].quizzes) ELSE Num(0)

\* a saved document whose assignments carry different weights and different scores
C16_Witness ==
    \E i \in GradeIds :
        /\ grades[i].assignments = <<Comp(1, 2, 1), Comp(2, 2, 0)>>
        /\ assignmentAverage(grades[i]) = Num(50)
        /\ grades[i].quizzes = <<>>

\* the threshold table, highest first
Thresholds ==
    << <<"A+", 97>>, <<"A", 93>>, <<"A-", 90>>, <<"B+", 87>>, <<"B", 83>>, <<"B-", 80>>,
       <<"C+", 77>>, <<"C", 73>>, <<"C-", 70>>, <<"D+", 67>>, <<"D", 63>>, <<"D-", 60>> >>

Reached(p) == {k \in 1..Len(Thresholds) : RGe(p, Num(Thresholds[k][2]))}

StatedLetter(p) ==
    IF Reached(p) = {} THEN "F"
    ELSE Thresholds[CHOOSE k \in Reached(p) : \A j \in Reached(p) : k <= j][1]

\* C17: the stored letter is the first of the table, read highest first, whose
\* threshold the stored percentage reaches, and F when it reaches none; it is never
\* I or W
C17_LetterOfPercentage ==
    \A i \in GradeIds :
        /\ grades[i].finalGrade.letterGrade = StatedLetter(grades[i].finalGrade.percentage)
        /\ grades[i].finalGrade.letterGrade \notin {"I", "W"}

\* a percentage on a threshold was given the higher letter
C17_Witness ==
    \E i \in GradeIds :
        /\ gresp.op = "updateMidterm"
        /\ grades[i].finalGrade.percentage = Num(93)
        /\ grades[i].finalGrade.letterGrade = "A"

\* the grade points of the letters, in tenths
StatedGpa ==
    [l \in {"A+", "A"} |-> 40] @@ ("A-" :> 37) @@ ("B+" :> 33) @@ ("B" :> 30)
    @@ ("B-" :> 27) @@ ("C+" :> 23) @@ ("C" :> 20) @@ ("C-" :> 17) @@ ("D+" :> 13)
    @@ ("D" :> 10) @@ ("D-" :> 7) @@ ("F" :> 0)

\* C18: the stored gpa is the table's value of the stored letter, lies in [0.0, 4.0],
\* and does not fall when a save raises the percentage
C18_GpaOfLetter ==
    /\ [](\A i \in GradeIds :
             /\ grades[i].finalGrade.letterGrade \in DOMAIN StatedGpa
             /\ grades[i].finalGrade.gpa = StatedGpa[grades[i].finalGrade.letterGrade]
             /\ grades[i].finalGrade.gpa \in 0..40)
    /\ [][\A i \in GradeIds :
            (i \in 1..Len(grades')
             /\ RGe(grades'[i].finalGrade.percentage, grades[i].finalGrade.percentage))
                => grades'[i].finalGrade.gpa >= grades[i].finalGrade.gpa]_vars

\* a midterm update stored a percentage of the B+ band
C18_Witness ==
    \E i \in GradeIds :
        /\ gresp.op = "updateMidterm"
        /\ grades[i].finalGrade.letterGrade = "B+"
        /\ grades[i].finalGrade.gpa = 33

\* C19: a stored document with no assignments, no quizzes and no midterm or final
\* score has percentage 0, letter F and gpa 0.0
C19_NoCategoryIsZeroF ==
    \A i \in GradeIds :
        WithData(grades[i]) = {}
            => grades[i].finalGrade = [percentage |-> Num(0), letterGrade |-> "F", gpa |-> 0]

\* a PUT saved a document none of whose categories has data
C19_Witness ==
    /\ gresp.op = "put" /\ gresp.code = "OK"
    /\ WithData(grades[gresp.id]) = {}

----------------------------------------------------------------------------
(* The frame of the recompute at save. *)

\* the creation whose document awaited its save as gpending[k] has stored it
SavedPending(k) ==
    /\ k \in 1..Len(gpending)
    /\ gpending' = RemoveAt(gpending, k)
    /\ Len(grades') = Len(grades) + 1

\* C20 as stated: the document written differs from the document handed to save() in
\* its finalGrade only
C20_OnlyFinalGrade ==
    [][\A k \in 1..Len(gpending) :
          SavedPending(k)
              => [Last(grades') EXCEPT !.finalGrade = gpending[k].finalGrade] = gpending[k]]_vars

\* C20: the document written differs from the document handed to save() in its
\* finalGrade and its lastUpdated stamp only
C20_FinalGradeAndStamp ==
    [][\A k \in 1..Len(gpending) :
          SavedPending(k)
              => [Last(grades') EXCEPT !.finalGrade = gpending[k].finalGrade,
                                       !.lastUpdated = gpending[k].lastUpdated]
                     = gpending[k]]_vars

\* a document with scores was written with a grade and a stamp it did not hold
C20_Witness ==
    /\ gresp.code = "CREATED"
    /\ grades[gresp.id].assignments # <<>>
    /\ grades[gresp.id].finalGrade.letterGrade = "C-"
    /\ grades[gresp.id].lastUpdated = 1

----------------------------------------------------------------------------
(* Who may change grades and attendance. *)

\* the callers that are neither admin nor teacher
Outsiders == {NoUser} \cup (Roles \ {"admin", "teacher"})

\* the answer the middleware gives a caller who is neither admin nor teacher
Refusal(by) == IF by = NoUser THEN "NO_TOKEN" ELSE "INSUFFICIENT_PERMISSIONS"

\* C21: a request on /api/grades or /api/attendance that creates or changes a
\* document (create, update, publish, add assignment, add quiz, lock, unlock) made
\* without an authenticated user is answered NO_TOKEN (401), one made by a user who
\* is neither admin nor teacher INSUFFICIENT_PERMISSIONS (403), and neither changes
\* a stored document
C21_StaffOnly ==
    [][/\ (gresp' # gresp /\ gresp'.by \in Outsiders)
            => gresp'.code = Refusal(gresp'.by) /\ grades' = grades /\ gpending' = gpending
       /\ (aresp' # aresp /\ aresp'.by \in Outsiders)
            => aresp'.code = Refusal(aresp'.by) /\ days' = days /\ apending' = apending
       /\ (grades' # grades /\ gresp'.op \notin {"updateMidterm", "updateFinal"})
            => gresp'.by = "staff"
       /\ (days' # days /\ aresp'.op # "mark") => aresp'.by = "staff"]_vars

\* a student was refused the lock of a stored day, which stayed unlocked
C21_Witness ==
    /\ aresp.op = "lock" /\ aresp.by = "student" /\ aresp.code = "INSUFFICIENT_PERMISSIONS"
    /\ days # <<>> /\ ~days[1].isLocked

----------------------------------------------------------------------------
(* The handlers of /api/users. *)

\* the response of a request on /api/users, with the account that made it
UResp(u, op, id, code) == [by |-> u, op |-> op, id |-> id, code |-> code]

\* the accounts the requests on /:id name
UserRequestIds == Users

\* a removed account
Removed == [role |-> "none", isActive |-> FALSE, stored |-> FALSE]

\* the role and isActive of a PUT /:id body; "owner" is no role of the system
UserBodies ==
    {[role |-> r, isActive |-> a] :
        r \in {None} \cup {Some(x) : x \in Roles \cup {"owner"}},
        a \in {None, Some(TRUE), Some(FALSE)}}

\* the part of PUT /:id before the update: the response that ends it, or "next"
UserBodyValid(body) == Has(body.role) => Val(body.role) \in Roles

PutUserGate(u, id, valid) ==
    IF authenticateToken(u) # "next" THEN authenticateToken(u)
    ELSE IF requireOwnershipOrAdmin(u, id) # "next" THEN requireOwnershipOrAdmin(u, id)
    ELSE IF ~valid THEN "Validation failed"
    ELSE IF ~users[id].stored THEN "USER_NOT_FOUND"
    ELSE "next"

\* an update that applies role and isActive whoever asks
ApplyUserPut_AnyCaller(u, doc, body) ==
    [doc EXCEPT !.role = IF Has(body.role) THEN Val(body.role) ELSE @,
                !.isActive = IF Has(body.isActive) THEN Val(body.isActive) ELSE @]

\* the field updates of PUT /:id: role and isActive are applied for an admin only
ApplyUserPut(u, doc, body) ==
    IF Role(u) = "admin"
    THEN [doc EXCEPT !.role = IF Has(body.role) THEN Val(body.role) ELSE @,
                     !.isActive = IF Has(body.isActive) THEN Val(body.isActive) ELSE @]
    ELSE doc

\* a request on /api/users/:id: rejected by its gate, or one of the changed accounts saved
UserRequest(u, op, id, gate, docs) ==
    /\ IF gate # "next"
       THEN /\ users' = users
            /\ uresp' = UResp(u, op, IF gate \in AuthErrors THEN "none" ELSE id, gate)
       ELSE \E doc \in docs :
            /\ users' = [users EXCEPT ![id] = doc]
            /\ uresp' = UResp(u, op, id, "OK")
    /\ UNCHANGED <<gradeVars, attVars, dirVars, inflight>>

\* PUT /api/users/:id
PutUser ==
    \E u \in Users \cup {NoUser}, id \in UserRequestIds, valid \in BOOLEAN :
        UserRequest(u, "put", id, PutUserGate(u, id, valid),
                    {ApplyUserPut(u, users[id], body) :
                        body \in {b \in UserBodies : UserBodyValid(b) = valid}})

\* the part of an admin's request on /:id before it changes the account
AdminGate(u, id, selfError) ==
    IF AdminOnly(u) # "next" THEN AdminOnly(u)
    ELSE IF ~users[id].stored THEN "USER_NOT_FOUND"
    ELSE IF selfError # "none" /\ id = u THEN selfError
    ELSE "next"

\* DELETE /api/users/:id
DeleteUser ==
    \E u \in Users \cup {NoUser}, id \in UserRequestIds :
        UserRequest(u, "delete", id, AdminGate(u, id, "SELF_DELETE_NOT_ALLOWED"), {Removed})

\* POST /api/users/:id/deactivate
DeactivateUser ==
    \E u \in Users \cup {NoUser}, id \in UserRequestIds :
        UserRequest(u, "deactivate", id, AdminGate(u, id, "SELF_DEACTIVATE_NOT_ALLOWED"),
                    {[users[id] EXCEPT !.isActive = FALSE]})

\* POST /api/users/:id/activate
ActivateUser ==
    \E u \in Users \cup {NoUser}, id \in UserRequestIds :
        UserRequest(u, "activate", id, AdminGate(u, id, "none"),
                    {[users[id] EXCEPT !.isActive = TRUE]})

\* the requests on /api/users that change an account
UserNext ==
    \/ PutUser
    \/ DeleteUser
    \/ DeactivateUser
    \/ ActivateUser

UserSpec == Init /\ [][UserNext]_vars

----------------------------------------------------------------------------
(* Who may change an account. *)

\* the account that made the request of this step was an admin when it made it
ByAdmin == uresp'.by \in Users /\ users[uresp'.by].role = "admin"

\* C22: a PUT /api/users/:id changes the role or the isActive of an account only when
\* an admin makes it, and a caller who is no admin updates no account but their own
C22_RoleAndActiveByAdminOnly ==
    [][uresp'.op = "put" =>
          /\ \A a \in Accounts :
                (users'[a].role # users[a].role \/ users'[a].isActive # users[a].isActive)
                    => ByAdmin
          /\ (uresp'.code = "OK" /\ ~ByAdmin) => uresp'.id = uresp'.by]_vars

\* an admin's PUT made the student a parent
C22_Witness ==
    /\ uresp = UResp("admin1", "put", "student1", "OK")
    /\ users["student1"].role = "parent"
    /\ users["admin1"].role = "admin"


\* C23: no request made by an admin (DELETE /:id, POST /:id/deactivate, PUT /:id)
\* removes that admin's own account or sets its isActive to false
C23_AdminKeepsOwnAccount ==
    [][ByAdmin =>
          /\ users'[uresp'.by].stored
          /\ users[uresp'.by].isActive => users'[uresp'.by].isActive]_vars

----------------------------------------------------------------------------
(* The token of an account that is not active. *)

Inactive(u) == users[u].stored /\ ~users[u].isActive

\* C24: while a stored account is not active, every request with its token is answered
\* ACCOUNT_INACTIVE (401) by authenticateToken, on every router, and changes nothing;
\* no request of an active account is answered so
C24_InactiveTokenRejected ==
    /\ [](\A u \in Users :
            /\ Inactive(u) =>
                  /\ authenticateToken(u) = "ACCOUNT_INACTIVE"
                  /\ TeacherOnly(u) = "ACCOUNT_INACTIVE"
                  /\ AdminOnly(u) = "ACCOUNT_INACTIVE"
            /\ authenticateToken(u) = "ACCOUNT_INACTIVE" => Inactive(u))
    /\ [][/\ (uresp'.by \in Users /\ Inactive(uresp'.by))
               => uresp'.code = "ACCOUNT_INACTIVE" /\ users' = users
          /\ (uresp'.by \in Users /\ uresp'.code = "ACCOUNT_INACTIVE")
               => Inactive(uresp'.by)]_vars

\* the teacher, deactivated by the admin, asked for the update of their own account
C24_Witness ==
    /\ uresp = UResp("teacher1", "put", "none", "ACCOUNT_INACTIVE")
    /\ Inactive("teacher1")
    /\ users["teacher1"].role = "teacher"

----------------------------------------------------------------------------
(* The Student, Teacher and Course models and the handlers of /api/students, *)
(* /api/teachers and /api/courses.  A document's _id is its place in the     *)
(* sequence.  The models' generated codes are required fields; the handlers  *)
(* are followed with the save hook supplying the code, as the hook intends.  *)

\* the most Course documents stored
MaxCourses == 1
\* the most seats (enrollment.maxStudents) a request asks for
MaxSeats == 2

\* the response of a request on the three routers; made is the code a save hook generated
DResp(u, op, id, code, made) ==
    [by |-> Caller(u), op |-> op, id |-> id, code |-> code, made |-> made]

\* the values of grade and department the requests use
Levels == {"1st", "2nd"}
Departments == {"Science", "Arts"}

\* new Student({...}) of POST /api/students: no studentId is passed (0)
NewStudent(userId, level) == [user |-> userId, studentId |-> 0, grade |-> level]

\* studentSchema.pre('save'): a document without studentId gets count + 1, the
\* serial that follows STU and the year
studentPreSave(doc) ==
    IF doc.studentId = 0 THEN [doc EXCEPT !.studentId = Len(students) + 1] ELSE doc

\* the unique indexes on studentId and on user at insert
StudentIndexFree(doc) ==
    \A i \in 1..Len(students) :
        students[i].studentId # doc.studentId /\ students[i].user # doc.user

\* the part of POST /api/students before new Student
CreateStudentGate(u, userId) ==
    IF AdminOnly(u) # "next" THEN AdminOnly(u)
    ELSE IF ~users[userId].stored THEN "USER_NOT_FOUND"
    ELSE IF users[userId].role # "student" THEN "INVALID_USER_ROLE"
    ELSE IF \E i \in 1..Len(students) : students[i].user = userId THEN "STUDENT_EXISTS"
    ELSE "next"

\* POST /api/students
CreateStudent ==
    \E u \in Users \cup {NoUser}, userId \in Accounts :
        /\ IF CreateStudentGate(u, userId) # "next"
           THEN /\ students' = students
                /\ dresp' = DResp(u, "createStudent", 0, CreateStudentGate(u, userId), None)
           ELSE \E level \in Levels :
                LET doc == studentPreSave(NewStudent(userId, level))
                IN  IF StudentIndexFree(doc)
                    THEN /\ students' = Append(students, doc)
                         /\ dresp' = DResp(u, "createStudent", Len(students) + 1, "CREATED",
                                           Some(doc.studentId))
                    ELSE /\ students' = students
                         /\ dresp' = DResp(u, "createStudent", 0, "CREATE_STUDENT_ERROR",
                                           Some(doc.studentId))
        /\ UNCHANGED <<teachers, courses, gradeVars, attVars, userVars, inflight>>

\* the part of a request on /:id of the three routers before it changes the document:
\* PUT passes every authenticated caller, DELETE an admin only
RecordGate(u, id, stored, adminOnly, notFound) ==
    IF adminOnly /\ AdminOnly(u) # "next" THEN AdminOnly(u)
    ELSE IF authenticateToken(u) # "next" THEN authenticateToken(u)
    ELSE IF id \notin 1..Len(stored) THEN notFound
    ELSE "next"

\* PUT /api/students/:id
PutStudent ==
    \E u \in Users \cup {NoUser}, id \in 1..(Len(students) + 1) :
        /\ IF RecordGate(u, id, students, FALSE, "STUDENT_NOT_FOUND") # "next"
           THEN /\ students' = students
                /\ dresp' = DResp(u, "putStudent", 0,
                                  RecordGate(u, id, students, FALSE, "STUDENT_NOT_FOUND"), None)
           ELSE \E level \in Levels :
                /\ students' = [students EXCEPT ![id].grade = level]
                /\ dresp' = DResp(u, "putStudent", id, "OK", None)
        /\ UNCHANGED <<teachers, courses, gradeVars, attVars, userVars, inflight>>

\* DELETE /api/students/:id
DeleteStudent ==
    \E u \in Users \cup {NoUser}, id \in 1..(Len(students) + 1) :
        /\ IF RecordGate(u, id, students, TRUE, "STUDENT_NOT_FOUND") # "next"
           THEN /\ students' = students
                /\ dresp' = DResp(u, "deleteStudent", 0,
                                  RecordGate(u, id, students, TRUE, "STUDENT_NOT_FOUND"), None)
           ELSE /\ students' = RemoveAt(students, id)
                /\ dresp' = DResp(u, "deleteStudent", id, "OK", None)
        /\ UNCHANGED <<teachers, courses, gradeVars, attVars, userVars, inflight>>

\* teacherSchema.pre('save'): a document without teacherId gets count + 1
teacherPreSave(doc) ==
    IF doc.teacherId = 0 THEN [doc EXCEPT !.teacherId = Len(teachers) + 1] ELSE doc

\* the part of POST /api/teachers before new Teacher
CreateTeacherGate(u, userId) ==
    IF AdminOnly(u) # "next" THEN AdminOnly(u)
    ELSE IF ~users[userId].stored THEN "USER_NOT_FOUND"
    ELSE IF users[userId].role # "teacher" THEN "INVALID_USER_ROLE"
    ELSE IF \E i \in 1..Len(teachers) : teachers[i].user = userId THEN "TEACHER_EXISTS"
    ELSE "next"

\* POST /api/teachers
CreateTeacher ==
    \E u \in Users \cup {NoUser}, userId \in Accounts :
        /\ IF CreateTeacherGate(u, userId) # "next"
           THEN /\ teachers' = teachers
                /\ dresp' = DResp(u, "createTeacher", 0, CreateTeacherGate(u, userId), None)
           ELSE \E dept \in Departments :
                LET doc == teacherPreSave([user |-> userId, teacherId |-> 0,
                                           department |-> dept])
                IN  /\ teachers' = Append(teachers, doc)
                    /\ dresp' = DResp(u, "createTeacher", Len(teachers) + 1, "CREATED",
                                      Some(doc.teacherId))
        /\ UNCHANGED <<students, courses, gradeVars, attVars, userVars, inflight>>

\* PUT /api/teachers/:id
PutTeacher ==
    \E u \in Users \cup {NoUser}, id \in 1..(Len(teachers) + 1) :
        /\ IF RecordGate(u, id, teachers, FALSE, "TEACHER_NOT_FOUND") # "next"
           THEN /\ teachers' = teachers
                /\ dresp' = DResp(u, "putTeacher", 0,
                                  RecordGate(u, id, teachers, FALSE, "TEACHER_NOT_FOUND"), None)
           ELSE \E dept \in Departments :
                /\ teachers' = [teachers EXCEPT ![id].department = dept]
                /\ dresp' = DResp(u, "putTeacher", id, "OK", None)
        /\ UNCHANGED <<students, courses, gradeVars, attVars, userVars, inflight>>

\* DELETE /api/teachers/:id
DeleteTeacher ==
    \E u \in Users \cup {NoUser}, id \in 1..(Len(teachers) + 1) :
        /\ IF RecordGate(u, id, teachers, TRUE, "TEACHER_NOT_FOUND") # "next"
           THEN /\ teachers' = teachers
                /\ dresp' = DResp(u, "deleteTeacher", 0,
                                  RecordGate(u, id, teachers, TRUE, "TEACHER_NOT_FOUND"), None)
           ELSE /\ teachers' = RemoveAt(teachers, id)
                /\ dresp' = DResp(u, "deleteTeacher", id, "OK", None)
        /\ UNCHANGED <<students, courses, gradeVars, attVars, userVars, inflight>>

\* the students a course enrols, and an entry of enrollment.students
Enrollees == {"s1", "s2"}
Enrolled(studentId) == [student |-> studentId]

\* enrollment: maxStudents, currentEnrollment (default 0) and students (default [])
Enrollment(max, cur, list) == [maxStudents |-> max, currentEnrollment |-> cur, students |-> list]

\* the enrollment of a POST /api/courses body that names maxStudents only
Seats == {Enrollment(max, 0, <<>>) : max \in 0..MaxSeats}

\* the enrollment of a PUT /api/courses/:id body: absent, or one of its fields
EnrollmentPatches ==
    {[maxStudents |-> m, currentEnrollment |-> None, students |-> None] :
        m \in {Some(n) : n \in 0..MaxSeats}}
    \cup {[maxStudents |-> None, currentEnrollment |-> c, students |-> None] :
            c \in {Some(n) : n \in 0..MaxSeats}}
    \cup {[maxStudents |-> None, currentEnrollment |-> None, students |-> l] :
            l \in {Some(<<>>), Some(<<Enrolled("s1")>>),
                   Some(<<Enrolled("s1"), Enrolled("s1")>>)}}

\* a PUT /api/courses/:id body: status and enrollment, each optional
CourseBody(status, enrollment) == [status |-> status, enrollment |-> enrollment]
StatusBodies == {CourseBody(Some(s), None) : s \in {"active", "cancelled"}}
EnrollmentBodies == {CourseBody(None, Some(p)) : p \in EnrollmentPatches}

\* { ...course.enrollment, ...enrollment }
MergeEnrollment(old, patch) ==
    [f \in DOMAIN old |-> IF Has(patch[f]) THEN Val(patch[f]) ELSE old[f]]

\* the field updates of PUT /api/courses/:id
ApplyCoursePut(c, body) ==
    [c EXCEPT
        !.status = IF Has(body.status) THEN Val(body.status) ELSE @,
        !.enrollment = IF Has(body.enrollment)
                       THEN MergeEnrollment(@, Val(body.enrollment)) ELSE @]

\* enrollment.maxStudents: required, min 1
ValidateCourse(c) == c.enrollment.maxStudents >= 1

\* the part of POST /api/courses before new Course
CreateCourseGate(u, enrollment, teacherId) ==
    IF AdminOnly(u) # "next" THEN AdminOnly(u)
    ELSE IF enrollment.maxStudents < 1 THEN "Validation failed"
    ELSE IF teacherId \notin 1..Len(teachers) THEN "TEACHER_NOT_FOUND"
    ELSE "next"

\* POST /api/courses
CreateCourse(enrollments) ==
    \E u \in Users \cup {NoUser}, teacherId \in 1..(Len(teachers) + 1),
       enrollment \in enrollments :
        /\ Len(courses) < MaxCourses
        /\ IF CreateCourseGate(u, enrollment, teacherId) # "next"
           THEN /\ courses' = courses
                /\ dresp' = DResp(u, "createCourse", 0,
                                  CreateCourseGate(u, enrollment, teacherId), None)
           ELSE /\ courses' = Append(courses, [teacher |-> teacherId, status |-> "active",
                                               enrollment |-> enrollment])
                /\ dresp' = DResp(u, "createCourse", Len(courses) + 1, "CREATED", None)
        /\ UNCHANGED <<students, teachers, gradeVars, attVars, userVars, inflight>>

\* PUT /api/courses/:id
PutCourse(bodies) ==
    \E u \in Users \cup {NoUser}, id \in 1..(Len(courses) + 1) :
        /\ IF RecordGate(u, id, courses, FALSE, "COURSE_NOT_FOUND") # "next"
           THEN /\ courses' = courses
                /\ dresp' = DResp(u, "putCourse", 0,
                                  RecordGate(u, id, courses, FALSE, "COURSE_NOT_FOUND"), None)
           ELSE \E body \in bodies :
                IF ValidateCourse(ApplyCoursePut(courses[id], body))
                THEN /\ courses' = [courses EXCEPT ![id] = ApplyCoursePut(@, body)]
                     /\ dresp' = DResp(u, "putCourse", id, "OK", None)
                ELSE /\ courses' = courses
                     /\ dresp' = DResp(u, "putCourse", id, "UPDATE_COURSE_ERROR", None)
        /\ UNCHANGED <<students, teachers, gradeVars, attVars, userVars, inflight>>

\* DELETE /api/courses/:id
DeleteCourse ==
    \E u \in Users \cup {NoUser}, id \in 1..(Len(courses) + 1) :
        /\ IF RecordGate(u, id, courses, TRUE, "COURSE_NOT_FOUND") # "next"
           THEN /\ courses' = courses
                /\ dresp' = DResp(u, "deleteCourse", 0,
                                  RecordGate(u, id, courses, TRUE, "COURSE_NOT_FOUND"), None)
           ELSE /\ courses' = RemoveAt(courses, id)
                /\ dresp' = DResp(u, "deleteCourse", id, "OK", None)
        /\ UNCHANGED <<students, teachers, gradeVars, attVars, userVars, inflight>>

\* the guard of addStudent: the error it throws, or "next"
AddStudentGate(c, studentId) ==
    IF c.enrollment.currentEnrollment >= c.enrollment.maxStudents THEN "Course is full"
    ELSE IF FindIndex(c.enrollment.students, studentId) # 0
         THEN "Student is already enrolled"
    ELSE "next"

\* courseSchema.methods.addStudent, called on a loaded document
addStudent ==
    \E id \in 1..Len(courses), studentId \in Enrollees :
        /\ IF AddStudentGate(courses[id], studentId) # "next"
           THEN /\ courses' = courses
                /\ dresp' = DResp(Method, "addStudent", id,
                                  AddStudentGate(courses[id], studentId), None)
           ELSE /\ courses' = [courses EXCEPT
                                  ![id].enrollment.students = Append(@, Enrolled(studentId)),
                                  ![id].enrollment.currentEnrollment = @ + 1]
                /\ dresp' = DResp(Method, "addStudent", id, "OK", None)
        /\ UNCHANGED <<students, teachers, gradeVars, attVars, userVars, inflight>>

\* courseSchema.methods.removeStudent, called on a loaded document
removeStudent ==
    \E id \in 1..Len(courses), studentId \in Enrollees :
        LET at == FindIndex(courses[id].enrollment.students, studentId)
        IN  /\ courses[id].enrollment.currentEnrollment > 0 - MaxSeats
            /\ IF at = 0
               THEN /\ courses' = courses
                    /\ dresp' = DResp(Method, "removeStudent", id,
                                      "Student is not enrolled in this course", None)
               ELSE /\ courses' = [courses EXCEPT
                                      ![id].enrollment.students = RemoveAt(@, at),
                                      ![id].enrollment.currentEnrollment = @ - 1]
                    /\ dresp' = DResp(Method, "removeStudent", id, "OK", None)
            /\ UNCHANGED <<students, teachers, gradeVars, attVars, userVars, inflight>>

\* the requests on /api/students
StudentNext ==
    \/ CreateStudent
    \/ PutStudent
    \/ DeleteStudent

StudentSpec == Init /\ [][StudentNext]_vars

\* the requests on the three routers, the courses with their status only
DirNext ==
    \/ StudentNext
    \/ CreateTeacher
    \/ PutTeacher
    \/ DeleteTeacher
    \/ CreateCourse({Enrollment(1, 0, <<>>)})
    \/ PutCourse(StatusBodies)
    \/ DeleteCourse

DirSpec == Init /\ [][DirNext]_vars

\* the courses of one teacher, their enrollment updated by requests and model methods
CourseNext ==
    \/ CreateTeacher
    \/ CreateCourse(Seats)
    \/ PutCourse(EnrollmentBodies)
    \/ DeleteCourse
    \/ addStudent
    \/ removeStudent

CourseSpec == Init /\ [][CourseNext]_vars

----------------------------------------------------------------------------
(* Who may change students, teachers and courses. *)

----------------------------------------------------------------------------
(* The enrollment of a course. *)

NoDuplicates(list) ==
    \A i, j \in 1..Len(list) : list[i].student = list[j].student => i = j

----------------------------------------------------------------------------
(* The generated studentId. *)

----------------------------------------------------------------------------
(* Requests on /:id run as their awaits allow: the handler loads the document *)
(* and tests it, other requests run, and the handler's save() is committed.   *)
(* save() of a loaded document writes the paths that changed since the load.  *)

\* a request that loaded was, changed it into now, and awaits its save
Loaded(op, id, was, now) == [op |-> op, id |-> id, was |-> was, now |-> now]

\* the PUT body that sets the midterm score
ScoreBodies == {PutBody(None, None, Some([score |-> Defined(2)]), None, None)}

\* the part of a grade request before it changes the loaded document
StaleGate(u, op, id) ==
    CASE op = "put" -> LoadGate(u, id, PutChecksPublished)
      [] op = "publish" -> LoadGate(u, id, FALSE)
      [] OTHER -> AddGate(u, id, TRUE)

\* the documents a grade request changes the loaded one into
GradeChanges(u, op, g) ==
    CASE op = "put" -> {ApplyPut(g, body) : body \in ScoreBodies}
      [] op = "publish" -> {publishGrades(g, u)}
      [] op = "addAssignment" -> {addAssignment(g, Comp(1, 2, 1))}
      [] OTHER -> {addQuiz(g, Comp(1, 2, 1))}

\* a grade request up to its save: findById, the isPublished test, the changes
LoadGrade ==
    \E u \in Users \cup {NoUser}, id \in RequestIds,
       op \in {"put", "addAssignment", "addQuiz", "publish"} :
        /\ Len(inflight) < MaxInflight
        /\ id \in GradeIds =>
              Len(grades[id].assignments) + Len(grades[id].quizzes) < MaxStored
        /\ IF StaleGate(u, op, id) # "next"
           THEN /\ inflight' = inflight
                /\ gresp' = GResp(u, op, IF StaleGate(u, op, id) \in AuthErrors THEN 0 ELSE id,
                                  StaleGate(u, op, id))
           ELSE \E now \in GradeChanges(u, op, grades[id]) :
                /\ inflight' = Append(inflight, Loaded(op, id, grades[id], now))
                /\ gresp' = GResp(u, op, id, "pending")
        /\ grades' = grades
        /\ UNCHANGED <<gpending, attVars, userVars, dirVars>>

\* the update save() sends: the paths set since the load, a pushed component appended
WriteGrade(stored, r) ==
    LET saved == GradePreSave(r.now)
    IN  [f \in DOMAIN stored |->
            IF f = "assignments" /\ r.op = "addAssignment"
                THEN Append(stored[f], saved[f][Len(saved[f])])
            ELSE IF f = "quizzes" /\ r.op = "addQuiz"
                THEN Append(stored[f], saved[f][Len(saved[f])])
            ELSE IF saved[f] # r.was[f] THEN saved[f]
            ELSE stored[f]]

\* a grade request from its save() on
CommitGrade ==
    \E k \in 1..Len(inflight) :
        LET r == inflight[k]
        IN  /\ r.op \in {"put", "addAssignment", "addQuiz", "publish"}
            /\ IF ValidateGrade(r.now)
               THEN /\ grades' = [grades EXCEPT ![r.id] = WriteGrade(@, r)]
                    /\ gresp' = GResp(Awaited, r.op, r.id, "OK")
               ELSE /\ grades' = grades
                    /\ gresp' = GResp(Awaited, r.op, r.id, SaveError(r.op))
            /\ inflight' = RemoveAt(inflight, k)
            /\ UNCHANGED <<gpending, attVars, userVars, dirVars>>

\* grade requests on one document, interleaved
StaleGradeNext ==
    \/ CreateGrade(BareBodies(OneKey))
    \/ LoadGrade
    \/ CommitGrade

StaleGradeSpec == Init /\ [][StaleGradeNext]_vars

\* PUT bodies that mark the first student of the roll
MarkBodies == {Some(<<Update(1, st)>>) : st \in {"absent", "late"}}

\* the documents an attendance request changes the loaded one into
DayChanges(u, op, d) ==
    IF op = "put" THEN {ApplyAttPut(d, body) : body \in MarkBodies}
    ELSE {lockAttendance(d, u)}

\* an attendance request up to its save: findById, the isLocked test, the changes
LoadDay ==
    \E u \in Users \cup {NoUser}, id \in DayRequestIds, op \in {"put", "lock"} :
        LET gate == DayGate(u, id, op = "put" /\ PutChecksLocked)
        IN  /\ Len(inflight) < MaxInflight
            /\ IF gate # "next"
               THEN /\ inflight' = inflight
                    /\ aresp' = AResp(u, op, IF gate \in AuthErrors THEN 0 ELSE id, gate, None)
               ELSE \E now \in DayChanges(u, op, days[id]) :
                    /\ inflight' = Append(inflight, Loaded(op, id, days[id], now))
                    /\ aresp' = AResp(u, op, id, "pending", None)
            /\ UNCHANGED <<days, apending, phase, gradeVars, userVars, dirVars>>

\* the update save() sends: the records and the fields set since the load
WriteDay(stored, r) ==
    LET saved == AttPreSave(r.now)
    IN  [f \in DOMAIN stored |->
            IF f = "records"
                THEN [i \in DOMAIN stored[f] |->
                        IF saved[f][i] # r.was[f][i] THEN saved[f][i] ELSE stored[f][i]]
            ELSE IF saved[f] # r.was[f] THEN saved[f]
            ELSE stored[f]]

\* an attendance request from its save() on
CommitDay ==
    \E k \in 1..Len(inflight) :
        LET r == inflight[k]
        IN  /\ r.op \in {"put", "lock"}
            /\ days' = [days EXCEPT ![r.id] = WriteDay(@, r)]
            /\ aresp' = AResp(Awaited, r.op, r.id, "OK", None)
            /\ inflight' = RemoveAt(inflight, k)
            /\ UNCHANGED <<apending, phase, gradeVars, userVars, dirVars>>

\* attendance requests on one day, interleaved
StaleDayNext ==
    \/ CreateAttendance(AttBodies(OneDate, BareRolls))
    \/ LoadDay
    \/ CommitDay

StaleDaySpec == Init /\ [][StaleDayNext]_vars

----------------------------------------------------------------------------
(* Writes that commit after a publish or a lock. *)

\* C26: whatever the interleaving of a publish with updates, added assignments and
\* added quizzes of the same document, no write changes the components of a document
\* whose stored isPublished is true
C26_NoWriteAfterPublish ==
    [][\A i \in GradeIds :
          grades[i].isPublished
              => Parts(grades'[i]) = Parts(grades[i])
                 /\ grades'[i].extras = grades[i].extras]_vars

\* C27: whatever the interleaving of a lock with updates of the same day, no write
\* changes the records of a day whose stored isLocked is true
C27_NoWriteAfterLock ==
    [][\A i \in DayIds : days[i].isLocked => days'[i].records = days[i].records]_vars


----------------------------------------------------------------------------
(* Publishing is one-way. *)

\* C28: a stored document whose isPublished is true keeps it true under every grade
\* request; isPublished becomes true by an accepted publish request only, and a
\* published document holds the user who published it and the time
C28_PublishedStaysPublished ==
    /\ [](\A i \in GradeIds :
            grades[i].isPublished
                => /\ Has(grades[i].publishedBy) /\ Val(grades[i].publishedBy) \in Users
                   /\ Has(grades[i].publishedAt))
    /\ [][\A i \in GradeIds :
            /\ grades[i].isPublished => grades'[i].isPublished
            /\ (~grades[i].isPublished /\ grades'[i].isPublished)
                  => gresp' = GResp(Val(grades'[i].publishedBy), "publish", i, "OK")]_vars

\* a midterm update was saved on a published document, which is still published
C28_Witness ==
    /\ gresp.op = "updateMidterm" /\ gresp.code = "OK"
    /\ grades[gresp.id].isPublished
    /\ grades[gresp.id].publishedBy = Some("teacher1")

====
